---------------------------- MODULE Spec2Model ----------------------------
(***************************************************************************)
(* A model of SyncDiff (src/diff.py): main's loop over the sections of the *)
(* configuration, collect_files' directory walk with exclusion rules,      *)
(* compare's classification of the sorted union of relative paths, and a   *)
(* file system that other processes may change while the program runs.     *)
(*                                                                         *)
(* Strings are sequences of one-character strings, so that splitting,      *)
(* stripping, unanchored regular-expression search, path joining and the   *)
(* lexicographic order of sorted() are computed rather than assumed.       *)
(***************************************************************************)
EXTENDS Integers, Sequences, FiniteSets, TLC

(***************************************************************************)
(* Bounds of the model.                                                    *)
(***************************************************************************)
\* sections in the configuration file
MaxSections == 2
\* files in the two trees together at the start
MaxFiles == 4
\* changes other processes make to the file system during the run
MaxEnv == 1

\* get_md5's default chunk size
chunk == 4096

(***************************************************************************)
(* Strings.                                                                *)
(***************************************************************************)
\* code point of a character (Python compares str by code point)
Ord(c) ==
    CASE c = " " -> 32 [] c = "$" -> 36 [] c = "(" -> 40 [] c = "." -> 46
      [] c = "/" -> 47 [] c = ";" -> 59 [] c = "A" -> 65 [] c = "B" -> 66
      [] c = "X" -> 88 [] c = "^" -> 94 [] c = "d" -> 100 [] c = "f" -> 102
      [] c = "s" -> 115

Min(a, b) == IF a < b THEN a ELSE b

\* str.__lt__: lexicographic by code point, a proper prefix is smaller
RECURSIVE StrLess(_, _)
StrLess(a, b) ==
    IF b = <<>> THEN FALSE
    ELSE IF a = <<>> THEN TRUE
    ELSE IF Head(a) # Head(b) THEN Ord(Head(a)) < Ord(Head(b))
    ELSE StrLess(Tail(a), Tail(b))

\* str.split(sep) for a one-character separator
RECURSIVE SplitFrom(_, _, _)
SplitFrom(s, sep, cur) ==
    IF s = <<>> THEN <<cur>>
    ELSE IF Head(s) = sep THEN <<cur>> \o SplitFrom(Tail(s), sep, <<>>)
    ELSE SplitFrom(Tail(s), sep, Append(cur, Head(s)))

split(s, sep) == SplitFrom(s, sep, <<>>)

\* str.strip(): leading and trailing blanks removed
RECURSIVE lstrip(_)
lstrip(s) == IF s # <<>> /\ Head(s) = " " THEN lstrip(Tail(s)) ELSE s

RECURSIVE rstrip(_)
rstrip(s) ==
    IF s # <<>> /\ s[Len(s)] = " " THEN rstrip(SubSeq(s, 1, Len(s) - 1)) ELSE s

strip(s) == rstrip(lstrip(s))

(***************************************************************************)
(* Regular expressions: the fragment the model's rule strings use, a       *)
(* literal with an optional leading ^ and an optional trailing $.  A "("   *)
(* is an unbalanced parenthesis, which re.compile rejects with re.error.   *)
(***************************************************************************)
ReError == [ok |-> FALSE]

re_compile(p) ==
    IF \E i \in 1..Len(p) : p[i] = "(" THEN ReError
    ELSE LET bol == p # <<>> /\ Head(p) = "^"
             p1  == IF bol THEN Tail(p) ELSE p
             eol == p1 # <<>> /\ p1[Len(p1)] = "$"
             lit == IF eol THEN SubSeq(p1, 1, Len(p1) - 1) ELSE p1
         IN  [ok |-> TRUE, bol |-> bol, eol |-> eol, lit |-> lit]

\* Pattern.search(path): an unanchored search for a match anywhere in path
search(r, path) ==
    \E i \in 1..(Len(path) + 1) :
        /\ i + Len(r.lit) - 1 <= Len(path)
        /\ SubSeq(path, i, i + Len(r.lit) - 1) = r.lit
        /\ r.bol => i = 1
        /\ r.eol => i + Len(r.lit) - 1 = Len(path)

(***************************************************************************)
(* Paths.                                                                  *)
(***************************************************************************)
\* os.path.join(a, b) for a relative b
join(a, b) == a \o <<"/">> \o b

\* os.path.relpath(path, base) for a path at or below base
relpath(path, base) ==
    IF path = base THEN <<".">> ELSE SubSeq(path, Len(base) + 2, Len(path))

\* path is base itself or lies beneath it
IsUnder(path, base) ==
    \/ path = base
    \/ /\ Len(path) > Len(base) + 1
       /\ SubSeq(path, 1, Len(base) + 1) = base \o <<"/">>


(***************************************************************************)
(* The inputs: trees and configuration sections.                           *)
(***************************************************************************)
RootA == <<"A">>
RootB == <<"B">>
\* a configured folder that does not exist
RootX == <<"X">>

\* relative paths a tree may hold a file at
RelFiles == { <<"f">>, <<"d", "/", "f">>, <<"d", "/", "s", "/", "f">> }

\* file and directory names of the trees
FileNames == { <<"f">> }
DirNames  == { <<"d">>, <<"s">> }

\* what a file may hold, with its modification time
FileHello == [data |-> <<"h", "i">>, mtime |-> "2024-01-01 00:00:00"]
FileX     == [data |-> <<"x">>, mtime |-> "2024-02-02 00:00:00"]

AbsFilesA == { join(RootA, r) : r \in RelFiles }
AbsFilesB == { join(RootB, r) : r \in RelFiles }

\* the trees at the start: at most MaxFiles files; only equality of the two
\* sides' data matters, so B's files all hold the same and A's either
InitialFiles ==
    UNION { { fls \in [S -> {FileHello, FileX}] :
                \A p \in S \cap AbsFilesB : fls[p] = FileHello } :
              S \in { T \in SUBSET (AbsFilesA \cup AbsFilesB) :
                        Cardinality(T) <= MaxFiles } }

\* the directories a set of files needs, and the two roots
RECURSIVE Ancestors(_)
Ancestors(p) ==
    IF \A i \in 1..Len(p) : p[i] # "/" THEN {}
    ELSE LET i == CHOOSE j \in 1..Len(p) :
                     p[j] = "/" /\ \A k \in (j + 1)..Len(p) : p[k] # "/"
             d == SubSeq(p, 1, i - 1)
         IN  {d} \cup Ancestors(d)

DirsOf(fls) == {RootA, RootB} \cup UNION { Ancestors(p) : p \in DOMAIN fls }

\* the ignore strings a section may carry
IgnoreStrings ==
    { <<>>,
      <<"d">>,
      <<"d", "$">>,
      <<"^", "f", ";", " ", "s", "/", " ">>,
      <<"s", ";", ";", "(">> }

\* the options of a section, in file order: a key is prefix + name
KeyA == [prefix |-> "folder_", name |-> "A", value |-> RootA]
KeyB == [prefix |-> "folder_", name |-> "B", value |-> RootB]
KeyX == [prefix |-> "folder_", name |-> "X", value |-> RootX]
KeyNote == [prefix |-> "", name |-> "note", value |-> <<"d">>]
KeyIgnore(v) == [prefix |-> "", name |-> "ignore", value |-> v]

KeyLists ==
    { <<KeyA>>,
      <<KeyA, KeyNote, KeyB>>,
      <<KeyA, KeyB, KeyX>>,
      <<KeyA, KeyX>>,
      <<KeyX, KeyB>> }

\* the sections a configuration may hold, with and without an ignore option
Sections ==
    KeyLists \cup { <<KeyIgnore(v)>> \o k : v \in IgnoreStrings, k \in KeyLists }

\* the value of section before and after the loop
NoSection == <<>>

(***************************************************************************)
(* The state.                                                              *)
(***************************************************************************)
VARIABLES
    fsFiles,     \* the file system: absolute path -> file
    fsDirs,      \* the file system: the directories that exist
    envLeft,     \* changes other processes may still make
    secIdx,      \* main: sections the for loop has taken so far
    section,     \* main: the section of this iteration
    pc,          \* where the program is
    exc,         \* the exception that ended the program, if any
    rules,       \* main: rules
    folder_a,    \* compare: folder_a
    folder_b,    \* compare: folder_b
    files_a,     \* compare: files_a, relative path -> absolute path
    files_b,     \* compare: files_b
    stack,       \* os.walk: the directories still to list
    visited,     \* os.walk: the directories listed in this comparison
    all_paths,   \* compare: all_paths
    idx,         \* compare: position of the for loop over all_paths
    cur,         \* compare: pa, pb, md5_a, md5_b of the iteration at "info"
    results,     \* the classifications of this comparison, in order
    statted      \* the paths get_file_info was called on in this comparison

vars == <<fsFiles, fsDirs, envLeft, secIdx, section, pc, exc, rules, folder_a, folder_b, files_a,
          files_b, stack, visited, all_paths, idx, cur, results, statted>>

fsVars == <<fsFiles, fsDirs, envLeft>>
mainVars == <<secIdx, section>>
cmpVars == <<folder_a, folder_b, files_a, files_b, stack, visited,
             all_paths, idx, cur, results, statted>>

(***************************************************************************)
(* The functions of diff.py.                                               *)
(***************************************************************************)
OSError == [ok |-> FALSE]

\* the while loop of get_md5: read a chunk, update, until read returns b""
RECURSIVE md5_update(_, _, _)
md5_update(data, pos, acc) ==
    IF pos > Len(data) THEN acc
    ELSE md5_update(data, pos + chunk,
                    acc \o SubSeq(data, pos, Min(pos + chunk - 1, Len(data))))

\* the digest is a function of the bytes fed to it; open() fails on a
\* missing file
get_md5(path) ==
    IF path \notin DOMAIN fsFiles THEN OSError
    ELSE [ok |-> TRUE, hexdigest |-> md5_update(fsFiles[path].data, 1, <<>>)]

\* the pair (None, None) of the except branch
NoneInfo == [none |-> TRUE]

\* os.stat fails on a missing file
get_file_info(file_path) ==
    IF file_path \notin DOMAIN fsFiles THEN NoneInfo
    ELSE [none  |-> FALSE,
          size  |-> Len(fsFiles[file_path].data),
          mtime |-> fsFiles[file_path].mtime]

\* the segments of the rule string that are not blank, stripped
Segments(rule_string) ==
    LET parts == IF rule_string # <<>> THEN split(rule_string, ";")
                 ELSE <<>>
        kept  == SelectSeq(parts, LAMBDA r : strip(r) # <<>>)
    IN  [i \in 1..Len(kept) |-> strip(kept[i])]

parse_ignore_rules(rule_string) ==
    LET segs     == Segments(rule_string)
        compiled == [i \in 1..Len(segs) |-> re_compile(segs[i])]
    IN  IF \E i \in 1..Len(segs) : ~compiled[i].ok THEN ReError
        ELSE [ok |-> TRUE, rules |-> compiled]

\* should_ignore with all() for any()
should_ignore_all(path, rls) == \A i \in 1..Len(rls) : search(rls[i], path)

should_ignore(path, rls) == \E i \in 1..Len(rls) : search(rls[i], path)


\* the sequences that enumerate a set: the orders a directory listing or
\* the iteration of a set may come in
RECURSIVE Orders(_)
Orders(S) ==
    IF S = {} THEN { <<>> }
    ELSE UNION { { <<x>> \o t : t \in Orders(S \ {x}) } : x \in S }

\* a dict is a function from its keys; {} is the function of no key
EmptyDict == <<>>

\* d[k] = v
dict_set(d, k, v) ==
    [x \in DOMAIN d \cup {k} |-> IF x = k THEN v ELSE d[x]]

\* dict.get(k): None is the empty (false) value
dict_get(d, k) == IF k \in DOMAIN d THEN d[k] ELSE <<>>

\* the for loop over fs in collect_files, for the directory root
RECURSIVE collect_dir(_, _, _, _, _)
collect_dir(files, base, root, fs, rls) ==
    IF fs = <<>> THEN files
    ELSE LET f   == Head(fs)
             rel == relpath(join(root, f), base)
         IN  collect_dir(IF ~should_ignore(rel, rls)
                           THEN dict_set(files, rel, join(root, f))
                           ELSE files,
                         base, root, Tail(fs), rls)

\* one iteration of the for loop over os.walk(base)
collect_step(files, base, root, fs, rls) ==
    LET rel_dir == relpath(root, base)
    IN  IF rel_dir # <<".">> /\ should_ignore(rel_dir, rls) THEN files
        ELSE collect_dir(files, base, root, fs, rls)

\* list.sort(): insertion of each element in its place
RECURSIVE insert(_, _)
insert(x, s) ==
    IF s = <<>> THEN <<x>>
    ELSE IF StrLess(x, Head(s)) THEN <<x>> \o s
    ELSE <<Head(s)>> \o insert(x, Tail(s))

\* sorted() that leaves its argument as it came
sorted_unsorted(s) == s

RECURSIVE sorted(_)
sorted(s) == IF s = <<>> THEN <<>> ELSE insert(Head(s), sorted(Tail(s)))

\* set(files_a) | set(files_b)
union_keys(fa, fb) == DOMAIN fa \cup DOMAIN fb

\* the test of line 60 taken for every pair of digests
differ_always(md5_a, md5_b) == TRUE

\* the test of line 60
differ(md5_a, md5_b) == md5_a # md5_b

NoDigest == [ok |-> FALSE]
NotGathered == [gathered |-> FALSE]
Gathered(info) == [gathered |-> TRUE, info |-> info]
NoCur == [rel |-> <<>>]

Result(rel, tag, md5_a, md5_b, info_a, info_b) ==
    [path |-> rel, tag |-> tag, md5_a |-> md5_a, md5_b |-> md5_b,
     info_a |-> info_a, info_b |-> info_b]

(***************************************************************************)
(* Init and the actions.                                                   *)
(***************************************************************************)
Init ==
    /\ fsFiles \in InitialFiles
    /\ fsDirs = DirsOf(fsFiles)
    /\ envLeft = MaxEnv
    /\ secIdx = 0
    /\ section = NoSection
    /\ pc = "main"
    /\ exc = "none"
    /\ rules = <<>>
    /\ folder_a = <<>>
    /\ folder_b = <<>>
    /\ files_a = EmptyDict
    /\ files_b = EmptyDict
    /\ stack = <<>>
    /\ visited = {}
    /\ all_paths = <<>>
    /\ idx = 0
    /\ cur = NoCur
    /\ results = <<>>
    /\ statted = {}

\* the for statement of line 100: the configuration holds a next section,
\* which the loop takes, or it holds no more and main returns
Advance ==
    \/ /\ secIdx < MaxSections
       /\ secIdx' = secIdx + 1
       /\ section' \in Sections
       /\ pc' = "parse"
    \/ /\ secIdx' = secIdx
       /\ section' = NoSection
       /\ pc' = "done"

\* the locals of compare, when compare is not running
ResetCompare ==
    /\ folder_a' = <<>>
    /\ folder_b' = <<>>
    /\ files_a' = EmptyDict
    /\ files_b' = EmptyDict
    /\ stack' = <<>>
    /\ visited' = {}
    /\ all_paths' = <<>>
    /\ idx' = 0
    /\ cur' = NoCur
    /\ results' = <<>>
    /\ statted' = {}

\* main, lines 76-100: no configuration file is found, or it holds no
\* section, and main returns; or the loop over its sections starts
MainStart ==
    /\ pc = "main"
    /\ Advance
    /\ UNCHANGED <<fsVars, exc, rules, cmpVars>>

\* main, lines 101-102: the section's rules
ParseRules ==
    /\ pc = "parse"
    /\ LET has    == \E i \in 1..Len(section) :
                         section[i].prefix = "" /\ section[i].name = "ignore"
           ignore == IF has
                     THEN section[CHOOSE i \in 1..Len(section) :
                                     /\ section[i].prefix = ""
                                     /\ section[i].name = "ignore"].value
                     ELSE <<>>
           parsed == parse_ignore_rules(ignore)
       IN  IF parsed.ok
           THEN pc' = "check" /\ rules' = parsed.rules /\ exc' = exc
           ELSE pc' = "raised" /\ rules' = rules /\ exc' = "re.error"
    /\ UNCHANGED <<fsVars, mainVars, cmpVars>>

\* the keys of the section that start with folder_
folder_keys(sec) == SelectSeq(sec, LAMBDA k : k.prefix = "folder_")

\* os.path.exists
exists(path) == path \in fsDirs \/ path \in DOMAIN fsFiles

\* main, lines 105-124: validate the section, then call compare
CheckSection ==
    /\ pc = "check"
    /\ LET fk == folder_keys(section)
       IN  IF Len(fk) # 2
           THEN /\ Advance
                /\ UNCHANGED cmpVars
           ELSE IF ~exists(fk[1].value) \/ ~exists(fk[2].value)
           THEN /\ Advance
                /\ UNCHANGED cmpVars
           ELSE /\ folder_a' = fk[1].value
                /\ folder_b' = fk[2].value
                /\ stack' = <<fk[1].value>>
                /\ pc' = "collect_a"
                /\ UNCHANGED <<secIdx, section, files_a,
                               files_b, visited, all_paths, idx, cur, results,
                               statted>>
    /\ UNCHANGED <<fsVars, exc, rules>>

\* collect_files, lines 36-45: os.walk lists the next directory (a
\* directory it cannot list is passed over) and the loop body runs on it
WalkStep ==
    /\ pc \in {"collect_a", "collect_b"}
    /\ stack # <<>>
    /\ LET root == Head(stack)
           base == IF pc = "collect_a" THEN folder_a ELSE folder_b
       IN  IF root \notin fsDirs
           THEN /\ stack' = Tail(stack)
                /\ UNCHANGED <<files_a, files_b, visited>>
           ELSE \E fs \in Orders({ n \in FileNames :
                                     join(root, n) \in DOMAIN fsFiles }),
                   dirs \in Orders({ n \in DirNames :
                                       join(root, n) \in fsDirs }) :
                    /\ visited' = visited \cup {root}
                    /\ stack' = [i \in 1..Len(dirs) |-> join(root, dirs[i])]
                                  \o Tail(stack)
                    /\ IF pc = "collect_a"
                       THEN /\ files_a' = collect_step(files_a, base, root,
                                                       fs, rules)
                            /\ files_b' = files_b
                       ELSE /\ files_b' = collect_step(files_b, base, root,
                                                       fs, rules)
                            /\ files_a' = files_a
    /\ UNCHANGED <<fsVars, mainVars, pc, exc, rules, folder_a, folder_b,
                   all_paths, idx, cur, results, statted>>

\* collect_files, line 46, and compare, lines 51 and 53: the walk is over;
\* sorted() takes the union set in whatever order the set iterates
WalkDone ==
    /\ pc \in {"collect_a", "collect_b"}
    /\ stack = <<>>
    /\ IF pc = "collect_a"
       THEN /\ pc' = "collect_b"
            /\ stack' = <<folder_b>>
            /\ UNCHANGED <<all_paths, idx>>
       ELSE /\ pc' = "loop"
            /\ stack' = stack
            /\ \E it \in Orders(union_keys(files_a, files_b)) :
                   all_paths' = sorted(it)
            /\ idx' = 1
    /\ UNCHANGED <<fsVars, mainVars, exc, rules, folder_a, folder_b, files_a,
                   files_b, visited, cur, results, statted>>

\* compare, lines 55-60 and 67-70: one path of all_paths
LoopStep ==
    /\ pc = "loop"
    /\ idx <= Len(all_paths)
    /\ LET rel == all_paths[idx]
           pa  == dict_get(files_a, rel)
           pb  == dict_get(files_b, rel)
       IN  IF pa # <<>> /\ pb # <<>>
           THEN LET md5_a == get_md5(pa)
                    md5_b == get_md5(pb)
                IN  IF ~md5_a.ok \/ ~md5_b.ok
                    THEN /\ pc' = "raised"
                         /\ exc' = "OSError"
                         /\ UNCHANGED <<idx, cur, results>>
                    ELSE IF differ(md5_a, md5_b)
                    THEN /\ pc' = "info"
                         /\ cur' = [rel |-> rel, pa |-> pa, pb |-> pb,
                                    md5_a |-> md5_a, md5_b |-> md5_b]
                         /\ UNCHANGED <<exc, idx, results>>
                    ELSE /\ results' = Append(results,
                              Result(rel, "Identical", md5_a, md5_b,
                                     NotGathered, NotGathered))
                         /\ idx' = idx + 1
                         /\ UNCHANGED <<pc, exc, cur>>
           ELSE /\ results' = Append(results,
                     Result(rel, IF pa # <<>> THEN "OnlyInA" ELSE "OnlyInB",
                            NoDigest, NoDigest, NotGathered, NotGathered))
                /\ idx' = idx + 1
                /\ UNCHANGED <<pc, exc, cur>>
    /\ UNCHANGED <<fsVars, mainVars, rules, folder_a, folder_b, files_a,
                   files_b, stack, visited, all_paths, statted>>

\* compare, lines 61-66: the two sides' size and modification time
InfoStep ==
    /\ pc = "info"
    /\ results' = Append(results,
           Result(cur.rel, "Differing", cur.md5_a, cur.md5_b,
                  Gathered(get_file_info(cur.pa)),
                  Gathered(get_file_info(cur.pb))))
    /\ statted' = statted \cup {cur.pa, cur.pb}
    /\ idx' = idx + 1
    /\ cur' = NoCur
    /\ pc' = "loop"
    /\ UNCHANGED <<fsVars, mainVars, exc, rules, folder_a, folder_b, files_a,
                   files_b, stack, visited, all_paths>>

\* compare, line 72: the loop is over
LoopDone ==
    /\ pc = "loop"
    /\ idx > Len(all_paths)
    /\ pc' = "end"
    /\ UNCHANGED <<fsVars, mainVars, exc, rules, cmpVars>>

\* compare returns to main, which goes on to the next section
CompareReturn ==
    /\ pc = "end"
    /\ ResetCompare
    /\ Advance
    /\ UNCHANGED <<fsVars, exc, rules>>

\* Other processes change the file system at any time. A change made while
\* main is between two comparisons is read first by CheckSection, so it is
\* taken at "check" at the earliest.
EnvPcs == {"check", "collect_a", "collect_b", "loop", "info"}

\* another process removes a file
RemoveFile ==
    /\ pc \in EnvPcs
    /\ envLeft > 0
    /\ \E p \in DOMAIN fsFiles :
           fsFiles' = [q \in DOMAIN fsFiles \ {p} |-> fsFiles[q]]
    /\ envLeft' = envLeft - 1
    /\ UNCHANGED <<fsDirs, mainVars, pc, exc, rules, cmpVars>>

\* another process removes a whole tree
RemoveRoot ==
    /\ pc \in EnvPcs
    /\ envLeft > 0
    /\ \E r \in {RootA, RootB} :
           /\ r \in fsDirs
           /\ fsDirs' = { d \in fsDirs : ~IsUnder(d, r) }
           /\ fsFiles' = [q \in { p \in DOMAIN fsFiles : ~IsUnder(p, r) }
                            |-> fsFiles[q]]
    /\ envLeft' = envLeft - 1
    /\ UNCHANGED <<mainVars, pc, exc, rules, cmpVars>>

Next ==
    \/ MainStart
    \/ ParseRules
    \/ CheckSection
    \/ WalkStep
    \/ WalkDone
    \/ LoopStep
    \/ InfoStep
    \/ LoopDone
    \/ CompareReturn
    \/ RemoveFile
    \/ RemoveRoot

Spec == Init /\ [][Next]_vars


(***************************************************************************)
(* The properties.                                                         *)
(***************************************************************************)
\* compare is running or has just ended, with its locals in place
ComparePcs == {"collect_a", "collect_b", "loop", "info", "end"}

\* compare is over: it returned, or an exception left it
CompareOver == pc = "end" \/ (pc = "raised" /\ exc = "OSError")

ResultPaths == { results[i].path : i \in 1..Len(results) }

Tags == {"Identical", "Differing", "OnlyInA", "OnlyInB", "HashError"}

\* the tag the two indexes and the two digests call for
TagIsRight(r) ==
    LET inA == r.path \in DOMAIN files_a
        inB == r.path \in DOMAIN files_b
    IN  /\ r.tag \in Tags
        /\ (inA /\ inB /\ r.md5_a.ok /\ r.md5_b.ok /\ r.md5_a = r.md5_b)
              => r.tag = "Identical"
        /\ (inA /\ inB /\ r.md5_a.ok /\ r.md5_b.ok /\ r.md5_a # r.md5_b)
              => r.tag = "Differing"
        /\ (inA /\ inB /\ (~r.md5_a.ok \/ ~r.md5_b.ok)) => r.tag = "HashError"
        /\ (inA /\ ~inB) => r.tag = "OnlyInA"
        /\ (~inA /\ inB) => r.tag = "OnlyInB"

\* C1: when compare is over, every relative path of keys(files_a) \cup
\* keys(files_b) has exactly one classification, no other path has one, and
\* the classification is Identical or Differing by the digests of a path in
\* both indexes, OnlyInA or OnlyInB for a path in one.
C1_ClassificationComplete ==
    CompareOver =>
        /\ ResultPaths = DOMAIN files_a \cup DOMAIN files_b
        /\ Len(results) = Cardinality(ResultPaths)
        /\ \A i \in 1..Len(results) : TagIsRight(results[i])

\* C2: the results of a comparison come in strictly increasing
\* lexicographic order of relative path, whatever order the trees were
\* enumerated in (the lines printed are the results that are not Identical,
\* in the same order).
C2_ResultsSorted ==
    \A i \in 1..Len(results), j \in 1..Len(results) :
        i < j => StrLess(results[i].path, results[j].path)

\* C2 witness: a comparison ended with three results, one not printed
C2_Witness ==
    /\ pc = "end"
    /\ Len(results) = 3
    /\ \E i \in 1..Len(results) : results[i].tag = "Identical"

\* C3: a failure of get_md5 on a path of both trees does not raise from
\* compare to its caller.
C3_HashFailureDoesNotRaise == ~(pc = "raised" /\ exc = "OSError")

\* the directories above a relative path that a rule matches
ExcludedAbove(rel) == { d \in Ancestors(rel) : should_ignore(d, rules) }

\* C4: no index holds a file beneath a subdirectory whose relative path
\* matches an exclusion rule, at any depth.
C4_NothingBeneathExcludedDir ==
    \A rel \in DOMAIN files_a \cup DOMAIN files_b : ExcludedAbove(rel) = {}

\* a rule of the section is found in the relative path
Matches(rel) == \E i \in 1..Len(rules) : search(rules[i], rel)

\* every file now beneath base is a key of the index
AllIndexed(base, index) ==
    \A p \in DOMAIN fsFiles :
        IsUnder(p, base) => relpath(p, base) \in DOMAIN index

\* C5: a relative path in which a rule is found is in neither index and has
\* no result; and under an empty rule set the indexes leave out no file.
C5_ExcludedFilesUnreported ==
    /\ \A rel \in DOMAIN files_a \cup DOMAIN files_b : ~Matches(rel)
    /\ \A rel \in ResultPaths : ~Matches(rel)
    /\ (pc \in {"loop", "info", "end"} /\ rules = <<>>) =>
           /\ AllIndexed(folder_a, files_a)
           /\ AllIndexed(folder_b, files_b)

\* C5 witness: a comparison ended in which a file that a rule matches is
\* under root A only, and another file of A was reported
C5_Witness ==
    /\ pc = "end"
    /\ \E p \in DOMAIN fsFiles :
           /\ IsUnder(p, folder_a)
           /\ Matches(relpath(p, folder_a))
           /\ join(folder_b, relpath(p, folder_a)) \notin DOMAIN fsFiles
    /\ \E i \in 1..Len(results) : results[i].tag = "OnlyInA"

\* the section of this iteration passes main's validation
SectionValid ==
    /\ Len(folder_keys(section)) = 2
    /\ exists(folder_keys(section)[1].value)
    /\ exists(folder_keys(section)[2].value)

\* C6: a section that fails validation is skipped: compare is not invoked
\* for it and the run does not end on it.
C6_InvalidSectionSkipped ==
    /\ pc \in ComparePcs => Len(folder_keys(section)) = 2
    /\ (pc = "raised" /\ exc = "re.error") => SectionValid

\* C7: a segment of the ignore string that does not compile ends neither
\* the process nor the processing of the remaining sections.
C7_PatternErrorDoesNotRaise == exc # "re.error"

BothHashed(r) == r.md5_a.ok /\ r.md5_b.ok

\* C8: get_file_info is called for a path if and only if the path is in both
\* trees and its digests differ, then for both sides; a stat that fails
\* gives (None, None) and ends neither the result nor the comparison.
C8_MetadataOnlyWhenDiffering ==
    /\ \A i \in 1..Len(results) :
           LET r == results[i]
           IN  /\ (r.info_a.gathered \/ r.info_b.gathered) =>
                      /\ r.path \in DOMAIN files_a \cap DOMAIN files_b
                      /\ BothHashed(r)
                      /\ r.md5_a # r.md5_b
               /\ (BothHashed(r) /\ r.md5_a # r.md5_b) =>
                      r.info_a.gathered /\ r.info_b.gathered
               /\ r.tag \in {"Identical", "OnlyInA", "OnlyInB"} =>
                      ~r.info_a.gathered /\ ~r.info_b.gathered
    /\ statted =
          UNION { {files_a[results[i].path], files_b[results[i].path]} :
                    i \in { k \in 1..Len(results) :
                              results[k].info_a.gathered } }
    /\ pc = "raised" => cur = NoCur

\* C8 witness: a comparison ended with a Differing result one side of which
\* could not be stat-ed, and an Identical result
C8_Witness ==
    /\ pc = "end"
    /\ \E i \in 1..Len(results) :
           /\ results[i].tag = "Differing"
           /\ results[i].info_a.gathered
           /\ results[i].info_a.info.none
           /\ ~results[i].info_b.info.none
    /\ \E i \in 1..Len(results) : results[i].tag = "Identical"

\* the relative path of a visited directory
VisitedRel(v) == relpath(v, IF IsUnder(v, folder_a) THEN folder_a ELSE folder_b)

\* C9: the walk lists no directory beneath a subdirectory whose relative
\* path matches an exclusion rule.
C9_ExcludedSubtreeNotVisited ==
    \A v \in visited : ExcludedAbove(VisitedRel(v)) = {}

\* C10: collect_files on a root that does not exist fails instead of
\* returning an index, so compare classifies a path only when the walk could
\* list both roots.
C10_MissingRootNotCompared ==
    results # <<>> => folder_a \in visited /\ folder_b \in visited

=============================================================================
